---- MODULE Spec2Model ----
(***************************************************************************)
(* Edge probing (src/probing-tasks/replicate/edge_probing.py): the layer   *)
(* sweep of probing(), the training loop of train_single_span /            *)
(* train_two_span, the metrics of test_single_span / test_two_span and the *)
(* span alignment of tokenize_jiant_dataset.                               *)
(*                                                                         *)
(* The transformer, the tokenizer's vocabulary and the loss values are     *)
(* outside the program: validation losses and predictions are inputs drawn *)
(* from small sets, and a text is the list of the numbers of tokens of its *)
(* words.  Floating point numbers are modelled as exact fractions <<n, d>>.*)
(***************************************************************************)
EXTENDS Integers, Sequences, FiniteSets, TLC

(* ------------------------------ bounds --------------------------------- *)
MaxBatches == 3       \* batches per epoch (len(train_data)) range over 1..MaxBatches
MaxInterval == 3      \* eval_interval ranges over 1..MaxInterval
MaxEvals == 3         \* max_evals ranges over None and 1..MaxEvals
MaxPatience == 4      \* patience ranges over 1..MaxPatience
MaxPatienceLr == 2    \* patience_lr ranges over 1..MaxPatienceLr
MaxLoss == 3          \* validation losses range over 1..MaxLoss
MaxLayer == 3         \* layer depths range over 1..MaxLayer
MaxSweep == 3         \* num_layers has at most MaxSweep elements
MaxIds == 2           \* the label ids are 0..n-1 for n in 1..MaxIds
MaxSamples == 4       \* a test set has at most MaxSamples samples
MaxBatchSize == 2     \* the test DataLoader's batch_size ranges over 1..MaxBatchSize
MaxWords == 2         \* a text has 1..MaxWords words
MaxTokens == 2        \* a word has 1..MaxTokens subword tokens
MaxLines == 2         \* lines of a jsonl file
MaxTargets == 2       \* targets of a line
MaxLength == 4        \* the tokenizer's max_length (128 in the source), scaled down

None == -1            \* Python's None where the other values are integers
Unbound == 0          \* a local name that has not been assigned yet

Min(x, y) == IF x <= y THEN x ELSE y

\* the ghost count of batches since the last evaluation saturates here, above
\* every eval_interval
SinceCap == 2 * MaxInterval + 1

(* ------------------------------ fractions ------------------------------ *)
\* a float q is the exact fraction q[1] / q[2], q[2] > 0
FracEq(p, q) == p[1] * q[2] = q[1] * p[2]
FracLeq(p, q) == p[1] * q[2] <= q[1] * p[2]
FracLess(p, q) == p[1] * q[2] < q[1] * p[2]

(* --------------------------- configuration ----------------------------- *)
RECURSIVE SeqsUpTo(_, _)
SeqsUpTo(S, n) ==
    IF n = 0 THEN {<< >>}
    ELSE LET shorter == SeqsUpTo(S, n - 1)
         IN  shorter \cup {Append(s, x) : s \in {t \in shorter : Len(t) = n - 1}, x \in S}

TaskTypes == {"single_span", "two_span", "pos_tagging"}
ModelNames == {"bert-base-uncased", "roberta-base", "gpt2"}
LrValues == {<<1, 10>>}
ResultsPaths == {"None", "out"}

\* ProbeConfig, and len(config.train_data) as nbatches.  max_evals, patience,
\* patience_lr and eval_interval are positive: the module gives them no other
\* meaning (patience_lr = 0 divides by zero), and train_data has a batch.

\* the configurations of the sweep: every task type, model name, list of
\* layers and results path, with a few training parameters
SweepConfig ==
    [ task_type     : TaskTypes,
      model_name    : ModelNames,
      num_layers    : SeqsUpTo(1..MaxLayer, MaxSweep),
      lr            : LrValues,
      max_evals     : {None, 2},
      patience_lr   : {1},
      patience      : {2},
      eval_interval : {2},
      results_path  : ResultsPaths,
      nbatches      : {2} ]

\* probing() is not running
IdleConfig ==
    [ task_type |-> "single_span", model_name |-> "bert-base-uncased",
      num_layers |-> << >>, lr |-> << 1, 10 >>, max_evals |-> None, patience_lr |-> 1,
      patience |-> 1, eval_interval |-> 1, results_path |-> "None", nbatches |-> 1 ]

\* the configurations of one training run: every training parameter, with
\* one layer to probe
TrainRunConfig ==
    [ task_type     : {"single_span", "two_span"},
      model_name    : {"bert-base-uncased"},
      num_layers    : {<< 1 >>},
      lr            : LrValues,
      max_evals     : {None} \cup (1..MaxEvals),
      patience_lr   : 1..MaxPatienceLr,
      patience      : 1..MaxPatience,
      eval_interval : 1..MaxInterval,
      results_path  : {"None"},
      nbatches      : 1..MaxBatches ]

VARIABLES
    config,         \* the ProbeConfig probing() was called with
    pc,             \* position of the control flow of probing()
    layer_idx,      \* index into config.num_layers of the current iteration
    probing_model,  \* [id, num_hidden_layers, fresh]: the probe model of this iteration
    optimizer,      \* [id, params, lr]: the optimizer and its param group lr
    lr,             \* train_*: local lr
    eval,           \* train_*: number of evaluations
    counter,        \* train_*: evaluations without improvement
    min_loss,       \* train_*: best validation loss
    start_index,    \* train_*: start of enumerate() for the current epoch
    b,              \* train_*: batches of the current epoch already trained
    since_eval,     \* ghost: batches trained since the last evaluation (or the start)
    gap,            \* ghost: batches trained between the last two evaluations
    epoch,          \* ghost: number of the current epoch modulo 2
    results,        \* probing(): the results dict, a set of <<layer, entry>>
    file,           \* results.json: [state, content]
    persisted,      \* ghost: layer keys a completed json.dump has written
    ret,            \* what probing() returned
    \* test_single_span / test_two_span
    ids,                \* all possible target ids
    test_data,          \* [samples, batch_size]: <<predicted class, target class>> pairs
    tpc,                \* position of the control flow of test_*
    batches_done,       \* batches of test_data the loop has consumed
    preds_sum,          \* per id: samples predicted as that id
    targets_sum,        \* per id: samples whose target is that id
    preds_correct_sum,  \* per id: samples predicted as that id and correct
    accuracy,           \* sum of the batches' mean accuracy
    macro_precision,
    macro_recall,
    test_ret,           \* the returned [accuracy, f1_score]
    \* tokenize_jiant_dataset
    texts,              \* per sample: the text, as the numbers of tokens of its words
    span1s,             \* per sample: <<start_word, end_word>>
    span2s,             \* per sample: <<start_word, end_word>>, or empty
    max_seq_length,
    encodings,          \* the tokenizer's BatchEncoding of texts
    kpc,                \* position of the control flow of tokenize_jiant_dataset
    i,                  \* index of the loop over encodings.input_ids
    updated_input_ids,
    span1_masks,
    span2_masks,
    kept,               \* ghost: the indices i of the samples appended
    \* read_jiant_dataset (its texts, span1s and span2s are the lists above)
    lines,              \* the lines of the file: [text, targets] dicts
    labels,             \* per sample: the label
    rpc,                \* position of the control flow of read_jiant_dataset
    line,               \* index of the line of the outer loop
    target              \* index of the target of the inner loop

testVars == << ids, test_data, tpc, batches_done, preds_sum, targets_sum,
               preds_correct_sum, accuracy, macro_precision, macro_recall, test_ret >>

tokVars == << texts, span1s, span2s, max_seq_length, encodings, kpc, i,
              updated_input_ids, span1_masks, span2_masks, kept >>

readVars == << lines, labels, rpc, line, target >>

vars == << config, pc, layer_idx, probing_model, optimizer, lr, eval, counter,
           min_loss, start_index, b, since_eval, gap, epoch, results, file,
           persisted, ret, testVars, tokVars, readVars >>

sweepVars == << config, pc, layer_idx, probing_model, optimizer, lr, eval, counter,
                min_loss, start_index, b, since_eval, gap, epoch, results, file,
                persisted, ret >>

trainVars == << lr, eval, counter, min_loss, start_index, b, since_eval, gap, epoch >>

(* ------------------- train_single_span / train_two_span ---------------- *)
\* The two functions differ only in the arguments of the forward pass; their
\* control flow is the same and is modelled once.

\* `if i % config.eval_interval == 0`
ShouldEvaluate(idx, interval) == idx % interval = 0

\* `if eval == 1: min_loss = loss`
FirstEvalMin(ev, loss, ml) == IF ev = 1 THEN loss ELSE ml

\* `if loss < min_loss`
Improved(loss, ml) == loss < ml

\* a slip: `eval > config.max_evals`
StopMaxEvals_OffByOne(cfg, ev) == cfg.max_evals # None /\ ev > cfg.max_evals

\* `config.max_evals is not None and eval >= config.max_evals`
StopMaxEvals(cfg, ev) == cfg.max_evals # None /\ ev >= cfg.max_evals

\* `elif counter >= config.patience`
StopPatience(cfg, c) == c >= cfg.patience

\* a slip: the test `counter > 0` left out
ShouldHalve_NoPositive(cfg, c) == c % cfg.patience_lr = 0

\* `elif counter % config.patience_lr == 0 and counter > 0`
ShouldHalve(cfg, c) == c % cfg.patience_lr = 0 /\ c > 0

\* `lr = lr/2`
Halve(q) == << q[1], 2 * q[2] >>

\* `start_index = i % config.eval_interval` in the for loop's else branch
NextStartIndex(idx, interval) == idx % interval

\* `for g in config.optimizer.param_groups: g['lr'] = lr`
SetLr(opt, q) == [opt EXCEPT !.lr = q]

\* the for loop goes on: the next batch of this epoch, or the else branch and
\* the next epoch
Advance(idx) ==
    IF b = config.nbatches - 1
    THEN /\ start_index' = NextStartIndex(idx, config.eval_interval)
         /\ b' = 0
         /\ epoch' = 1 - epoch
    ELSE /\ b' = b + 1
         /\ UNCHANGED << start_index, epoch >>

\* the evaluation block of one loop iteration, with validation loss `loss`
Evaluate(idx, loss) ==
    LET ev == eval + 1
        ml == FirstEvalMin(ev, loss, min_loss)
        c  == IF Improved(loss, ml) THEN 0 ELSE counter + 1
    IN  /\ eval' = ev
        /\ min_loss' = IF Improved(loss, ml) THEN loss ELSE ml
        /\ counter' = c
        /\ gap' = Min(since_eval + 1, SinceCap)
        /\ since_eval' = 0
        /\ IF StopMaxEvals(config, ev) \/ StopPatience(config, c)
           THEN \* break, then the outer break: the function returns
                /\ pc' = "test"
                /\ UNCHANGED << lr, optimizer, start_index, b, epoch >>
           ELSE /\ pc' = "train"
                /\ IF ShouldHalve(config, c)
                   THEN /\ lr' = Halve(lr)
                        /\ optimizer' = SetLr(optimizer, Halve(lr))
                   ELSE UNCHANGED << lr, optimizer >>
                /\ Advance(idx)

\* one iteration of `for i, batch in enumerate(loop, start_index)`
TrainBatch ==
    /\ pc = "train"
    /\ LET idx == start_index + b
       IN  /\ probing_model' = [probing_model EXCEPT !.fresh = FALSE]
           /\ IF ShouldEvaluate(idx, config.eval_interval)
              THEN \E loss \in 1..MaxLoss : Evaluate(idx, loss)
              ELSE /\ Advance(idx)
                   /\ since_eval' = Min(since_eval + 1, SinceCap)
                   /\ UNCHANGED << pc, lr, optimizer, eval, counter, min_loss, gap >>
    /\ UNCHANGED << config, layer_idx, results, file, persisted, ret >>
    /\ UNCHANGED << testVars, tokVars, readVars >>


(* ------------------- test_single_span / test_two_span ------------------ *)
\* The two functions differ only in the arguments of the forward pass.  The
\* model's output and the one-hot targets enter as the pairs
\* <<argmax of the output, argmax of the target>>; the loss is left out.

RECURSIVE GCD(_, _)
GCD(x, y) == IF y = 0 THEN x ELSE GCD(y, x % y)

\* fractions in lowest terms
Norm(q) == IF q[1] = 0 THEN << 0, 1 >>
           ELSE LET g == GCD(q[1], q[2]) IN << q[1] \div g, q[2] \div g >>
FracAdd(p, q) == Norm(<< p[1] * q[2] + q[1] * p[2], p[2] * q[2] >>)
FracMul(p, q) == Norm(<< p[1] * q[1], p[2] * q[2] >>)
FracDivInt(p, n) == Norm(<< p[1], p[2] * n >>)
\* p / q for q # 0
FracDiv(p, q) == Norm(<< p[1] * q[2], p[2] * q[1] >>)

RECURSIVE FracSum(_, _)
FracSum(f, S) ==
    IF S = {} THEN << 0, 1 >>
    ELSE LET x == CHOOSE x \in S : TRUE IN FracAdd(f[x], FracSum(f, S \ {x}))

\* len(loop): a DataLoader yields batch_size samples per batch, fewer in the last
NumBatches(data) == (Len(data.samples) + data.batch_size - 1) \div data.batch_size

\* the k-th batch, k in 1..NumBatches(data)
Batch(data, k) ==
    SubSeq(data.samples, (k - 1) * data.batch_size + 1,
           Min(k * data.batch_size, Len(data.samples)))

\* `torch.sum(preds == id).item()`
CountPreds(batch, id) == Cardinality({k \in 1..Len(batch) : batch[k][1] = id})
\* `torch.sum(targets_max == id).item()`
CountTargets(batch, id) == Cardinality({k \in 1..Len(batch) : batch[k][2] = id})
\* `torch.sum((preds == id) * (targets_max == id)).item()`
CountCorrect(batch, id) ==
    Cardinality({k \in 1..Len(batch) : batch[k][1] = id /\ batch[k][2] = id})
\* `(preds == targets_max).float().mean().item()`
BatchAccuracy(batch) ==
    Norm(<< Cardinality({k \in 1..Len(batch) : batch[k][1] = batch[k][2]}), Len(batch) >>)

\* `preds_correct_sum[id]/preds_sum[id] if preds_sum[id] != 0 else 0`
Precision(correct, predicted) ==
    IF predicted # 0 THEN Norm(<< correct, predicted >>) ELSE << 0, 1 >>

\* `preds_correct_sum[id]/targets_sum[id] if targets_sum[id] != 0 else 0`
Recall(correct, actual) ==
    IF actual # 0 THEN Norm(<< correct, actual >>) ELSE << 0, 1 >>

\* a slip: the mean over the ids that occur only
MacroAverage_Present(values, idset) ==
    LET present == {id \in idset : values[id][1] # 0}
    IN  IF present = {} THEN << 0, 1 >>
        ELSE FracDivInt(FracSum(values, idset), Cardinality(present))

\* `sum(precision) / len(ids)`
MacroAverage(values, idset) == FracDivInt(FracSum(values, idset), Cardinality(idset))

\* a slip: the parentheses of the denominator forgotten,
\* `2*(macro_precision*macro_recall) / macro_precision + macro_recall`
F1Score_NoParentheses(precision, recall) ==
    FracAdd(FracDiv(FracMul(<< 2, 1 >>, FracMul(precision, recall)), precision), recall)

\* `2*(macro_precision*macro_recall) / (macro_precision + macro_recall)`,
\* for macro_precision + macro_recall # 0
F1Score(precision, recall) ==
    FracDiv(FracMul(<< 2, 1 >>, FracMul(precision, recall)), FracAdd(precision, recall))

\* one iteration of `for xb, span1s, targets in loop`
TestBatch ==
    /\ tpc = "loop"
    /\ batches_done < NumBatches(test_data)
    /\ LET batch == Batch(test_data, batches_done + 1)
       IN  /\ preds_sum' = [id \in ids |-> preds_sum[id] + CountPreds(batch, id)]
           /\ targets_sum' = [id \in ids |-> targets_sum[id] + CountTargets(batch, id)]
           /\ preds_correct_sum' =
                 [id \in ids |-> preds_correct_sum[id] + CountCorrect(batch, id)]
           /\ accuracy' = FracAdd(accuracy, BatchAccuracy(batch))
    /\ batches_done' = batches_done + 1
    /\ UNCHANGED << ids, test_data, tpc, macro_precision, macro_recall, test_ret >>
    /\ UNCHANGED << sweepVars, tokVars, readVars >>

\* the statements after the loop
TestFinish ==
    /\ tpc = "loop"
    /\ batches_done = NumBatches(test_data)
    /\ LET precision == [id \in ids |->
                           Precision(preds_correct_sum[id], preds_sum[id])]
           recall == [id \in ids |->
                           Recall(preds_correct_sum[id], targets_sum[id])]
           P == MacroAverage(precision, ids)
           R == MacroAverage(recall, ids)
       IN  /\ macro_precision' = P
           /\ macro_recall' = R
           /\ IF FracAdd(P, R)[1] = 0
              THEN \* the division of the F1 score raises ZeroDivisionError
                   /\ tpc' = "raised"
                   /\ test_ret' = "ZeroDivisionError"
              ELSE /\ tpc' = "returned"
                   /\ test_ret' =
                         [ accuracy |-> FracDivInt(accuracy, NumBatches(test_data)),
                           f1_score |-> F1Score(P, R) ]
    /\ UNCHANGED << ids, test_data, batches_done, preds_sum, targets_sum,
                    preds_correct_sum, accuracy >>
    /\ UNCHANGED << sweepVars, tokVars, readVars >>

\* the locals of test_* before the loop
TestLocals(idset, data) ==
    /\ ids = idset
    /\ test_data = data
    /\ batches_done = 0
    /\ preds_sum = [id \in idset |-> 0]
    /\ targets_sum = [id \in idset |-> 0]
    /\ preds_correct_sum = [id \in idset |-> 0]
    /\ accuracy = << 0, 1 >>
    /\ macro_precision = << 0, 1 >>
    /\ macro_recall = << 0, 1 >>
    /\ test_ret = "running"

\* test_* is entered
TestEntry(idset, data) ==
    /\ TestLocals(idset, data)
    /\ tpc = "loop"

\* test_* is not running
TestIdle ==
    /\ TestLocals({0}, [samples |-> << >>, batch_size |-> 1])
    /\ tpc = "idle"


(* ------------------------ tokenize_jiant_dataset ----------------------- *)
\* A text is the sequence of the numbers of subword tokens of its words.  The
\* tokenizer puts a special token before and after the word tokens, truncates
\* to max_length tokens and pads to max_length; positions and word indices
\* count from 0.  The labels are left out.

\* word_to_tokens found no token of the word
NoSpan == << >>

RECURSIVE WordsOfTokens(_, _)
\* the word index of every word token of the text, from word j on
WordsOfTokens(text, j) ==
    IF j > Len(text) THEN << >>
    ELSE [k \in 1..text[j] |-> j - 1] \o WordsOfTokens(text, j + 1)

Pad(seq, n, x) == seq \o [k \in 1..(n - Len(seq)) |-> x]

\* `tokenizer(texts, max_length=128, truncation=True, padding="max_length")`
\* for one text: word_ids per position (None for special and padding tokens)
\* and input_ids (1 for a token, 0 for padding)
Encode(text) ==
    LET all == WordsOfTokens(text, 1)
        content == SubSeq(all, 1, Min(Len(all), MaxLength - 2))
        words == << None >> \o content \o << None >>
    IN  [ word_ids  |-> Pad(words, MaxLength, None),
          input_ids |-> Pad([k \in 1..Len(words) |-> 1], MaxLength, 0) ]

\* BatchEncoding.word_to_tokens(batch_index, word_index): the positions
\* [first, last + 1) of the word's tokens in that text, None without one
WordToTokens(enc, batch_index, word_index) ==
    LET ws == enc[batch_index + 1].word_ids
        at == {q \in 1..Len(ws) : ws[q] = word_index}
    IN  IF at = {} THEN NoSpan
        ELSE << (CHOOSE q \in at : \A r \in at : q <= r) - 1,
                (CHOOSE q \in at : \A r \in at : q >= r) >>

\* `encodings.word_to_tokens(w)`: called with one argument, which
\* BatchEncoding takes as the word index in the FIRST text of the batch
WordToTokensCall(enc, sample, w) == WordToTokens(enc, 0, w)

\* `torch.minimum(torch.arange(n) >= start, torch.arange(n) < end)`
Mask(n, start, end) == [q \in 1..n |-> (q - 1 >= start /\ q - 1 < end)]

\* `target = torch.zeros(max_seq_length).int(); target[:tokens.shape[0]] = tokens`
PadTarget(n, tokens) == [q \in 1..n |-> IF q <= Len(tokens) THEN tokens[q] ELSE 0]

\* the four (or two) lookups of one loop iteration
Spans(enc, k) ==
    IF span2s # << >>
    THEN << WordToTokensCall(enc, k, span1s[k][1]), WordToTokensCall(enc, k, span1s[k][2]),
            WordToTokensCall(enc, k, span2s[k][1]), WordToTokensCall(enc, k, span2s[k][2]) >>
    ELSE << WordToTokensCall(enc, k, span1s[k][1]), WordToTokensCall(enc, k, span1s[k][2]) >>

\* one iteration of `for i, tokens in enumerate(encodings.input_ids)`
TokenizeSample ==
    /\ kpc = "loop"
    /\ i < Len(encodings)
    /\ LET k == i + 1
           spans == Spans(encodings, k)
       IN  IF \E j \in 1..Len(spans) : spans[j] = NoSpan
           THEN \* `if None in spans: continue`
                UNCHANGED << updated_input_ids, span1_masks, span2_masks, kept >>
           ELSE /\ span2_masks' =
                     IF span2s # << >>
                     THEN Append(span2_masks, Mask(max_seq_length, spans[3][1], spans[4][2]))
                     ELSE span2_masks
                /\ span1_masks' =
                     Append(span1_masks, Mask(max_seq_length, spans[1][1], spans[2][2]))
                /\ updated_input_ids' =
                     Append(updated_input_ids, PadTarget(max_seq_length, encodings[k].input_ids))
                /\ kept' = Append(kept, k)
    /\ i' = i + 1
    /\ UNCHANGED << texts, span1s, span2s, max_seq_length, encodings, kpc >>
    /\ UNCHANGED << sweepVars, testVars, readVars >>

\* `encodings.update({...}); return encodings`
TokenizeReturn ==
    /\ kpc = "loop"
    /\ i = Len(encodings)
    /\ kpc' = "returned"
    /\ UNCHANGED << texts, span1s, span2s, max_seq_length, encodings, i,
                    updated_input_ids, span1_masks, span2_masks, kept >>
    /\ UNCHANGED << sweepVars, testVars, readVars >>

\* the locals of tokenize_jiant_dataset before the loop
TokLocals(ts, s1, s2, n) ==
    /\ texts = ts
    /\ span1s = s1
    /\ span2s = s2
    /\ max_seq_length = n
    /\ encodings = [k \in 1..Len(ts) |-> Encode(ts[k])]
    /\ i = 0
    /\ updated_input_ids = << >>
    /\ span1_masks = << >>
    /\ span2_masks = << >>
    /\ kept = << >>

TokIdle ==
    /\ TokLocals(<< >>, << >>, << >>, MaxLength)
    /\ kpc = "idle"

(* --------------------------- read_jiant_dataset ------------------------ *)
\* A line of the file is the dict [text, targets]; a target is a dict with the
\* keys span1 and label and, in a two-span task, span2.

\* `if "span2" in target.keys()`
HasSpan2(tgt) == "span2" \in DOMAIN tgt

\* `span2s.append(target["span2"])` under its condition
AppendSpan2(s2, tgt) ==
    IF HasSpan2(tgt) THEN Append(s2, tgt.span2) ELSE s2

\* one iteration of `for target in targets`
ReadTarget ==
    /\ rpc = "loop"
    /\ line <= Len(lines)
    /\ target <= Len(lines[line].targets)
    /\ LET jiant_dict == lines[line]
           tgt == jiant_dict.targets[target]
       IN  /\ texts' = Append(texts, jiant_dict.text)
           /\ span1s' = Append(span1s, tgt.span1)
           /\ span2s' = AppendSpan2(span2s, tgt)
           /\ labels' = Append(labels, tgt.label)
    /\ target' = target + 1
    /\ UNCHANGED << lines, rpc, line >>
    /\ UNCHANGED << max_seq_length, encodings, kpc, i, updated_input_ids,
                    span1_masks, span2_masks, kept >>
    /\ UNCHANGED << sweepVars, testVars >>

\* `for line in lines`: the targets of this line are exhausted
ReadLine ==
    /\ rpc = "loop"
    /\ line <= Len(lines)
    /\ target > Len(lines[line].targets)
    /\ line' = line + 1
    /\ target' = 1
    /\ UNCHANGED << lines, labels, rpc >>
    /\ UNCHANGED << sweepVars, testVars, tokVars >>

\* `return texts, span1s, span2s, labels`
ReadReturn ==
    /\ rpc = "loop"
    /\ line > Len(lines)
    /\ rpc' = "returned"
    /\ UNCHANGED << lines, labels, line, target >>
    /\ UNCHANGED << sweepVars, testVars, tokVars >>

\* the locals of read_jiant_dataset before its loop, for the file f
ReadLocals(f) ==
    /\ lines = f
    /\ labels = << >>
    /\ line = 1
    /\ target = 1

ReadIdle ==
    /\ ReadLocals(<< >>)
    /\ rpc = "idle"

(* ------------------------------- probing ------------------------------- *)
NoModel == [id |-> 0, num_hidden_layers |-> 0, fresh |-> TRUE]
NoOptimizer == [id |-> 0, params |-> 0, lr |-> << 0, 1 >>]

\* `config.model_name.startswith("roberta")` / `.startswith("bert")`
ModelClass(name) ==
    IF name \in {"roberta-base"} THEN "Roberta"
    ELSE IF name \in {"bert-base-uncased"} THEN "Bert"
    ELSE "unbound"

\* a slip: no else branch, every task type is treated as a span task
ValidTask_AcceptsAll(task_type) == task_type \in TaskTypes

ValidTask(task_type) == task_type \in {"single_span", "two_span"}

\* what test_single_span / test_two_span hand back to probing(): a triple, or
\* the ZeroDivisionError of the macro F1 score
TestEntries ==
    { [loss |-> << 1, 2 >>, accuracy |-> << 3, 4 >>, f1_score |-> << 15, 19 >>],
      [loss |-> << 1, 1 >>, accuracy |-> << 1, 2 >>, f1_score |-> << 1, 2 >>] }

Keys(table) == {p[1] : p \in table}

\* a slip: the table is created anew in every iteration
SetItem_Clear(table, key, entry) == {<< key, entry >>}

\* `results[layer] = {...}`
SetItem(table, key, entry) == {p \in table : p[1] # key} \cup {<< key, entry >>}

\* json.dump turns the int keys of a dict into strings
JsonKey(k) == ToString(k)
JsonDump(table) == {<< JsonKey(p[1]), p[2] >> : p \in table}

\* the state of the locals of train_* when the function is entered
EnterTrain ==
    /\ lr' = config.lr
    /\ eval' = 0
    /\ counter' = 0
    /\ start_index' = 1
    /\ min_loss' = Unbound
    /\ b' = 0
    /\ since_eval' = 0
    /\ gap' = 0
    /\ epoch' = 0

\* `from_pretrained(..., num_hidden_layers=layer)`
NewModel(n, layer) == [id |-> n, num_hidden_layers |-> layer, fresh |-> TRUE]

\* a slip: the optimizer is created once and reused by the later iterations
NewOptimizer_Reuse(n, model, old) ==
    IF old.id = 0 THEN [id |-> n, params |-> model.id, lr |-> config.lr]
    ELSE [old EXCEPT !.params = model.id]

\* `optim.Adam(probing_model.parameters(), lr=config.lr)`
NewOptimizer(n, model, old) == [id |-> n, params |-> model.id, lr |-> config.lr]

\* an iteration of `for layer in config.num_layers` up to the call of train_*
ProbeLayer ==
    /\ pc = "loop"
    /\ layer_idx <= Len(config.num_layers)
    /\ ValidTask(config.task_type)
    /\ IF ModelClass(config.model_name) = "unbound"
       THEN \* probing_model is not bound: optim.Adam(probing_model...) raises
            /\ pc' = "raised"
            /\ ret' = "UnboundLocalError"
            /\ UNCHANGED << probing_model, optimizer, trainVars >>
       ELSE /\ pc' = "train"
            /\ probing_model' = NewModel(layer_idx, config.num_layers[layer_idx])
            /\ optimizer' = NewOptimizer(layer_idx, probing_model', optimizer)
            /\ EnterTrain
            /\ UNCHANGED ret
    /\ UNCHANGED << config, layer_idx, results, file, persisted >>
    /\ UNCHANGED << testVars, tokVars, readVars >>

\* the else branch: `print(... is not a valid task type); return None`
InvalidTask ==
    /\ pc = "loop"
    /\ layer_idx <= Len(config.num_layers)
    /\ ~ValidTask(config.task_type)
    /\ pc' = "returned"
    /\ ret' = "None"
    /\ UNCHANGED << config, layer_idx, probing_model, optimizer, trainVars,
                    results, file, persisted >>
    /\ UNCHANGED << testVars, tokVars, readVars >>

\* train_* has returned: its locals are gone
LeaveTrain ==
    /\ lr' = << 0, 1 >>
    /\ eval' = 0
    /\ counter' = 0
    /\ min_loss' = Unbound
    /\ start_index' = 1
    /\ b' = 0
    /\ since_eval' = 0
    /\ gap' = 0
    /\ epoch' = 0

\* test_* and `results[layer] = {...}`
Test ==
    /\ pc = "test"
    /\ LeaveTrain
    /\ \/ /\ pc' = "raised"
          /\ ret' = "ZeroDivisionError"
          /\ UNCHANGED << results, layer_idx >>
       \/ \E entry \in TestEntries :
             /\ results' = SetItem(results, config.num_layers[layer_idx], entry)
             /\ IF config.results_path # "None"
                THEN /\ pc' = "open"
                     /\ UNCHANGED layer_idx
                ELSE /\ pc' = "loop"
                     /\ layer_idx' = layer_idx + 1
             /\ UNCHANGED ret
    /\ UNCHANGED << config, probing_model, optimizer, file, persisted >>
    /\ UNCHANGED << testVars, tokVars, readVars >>

\* `open(f"{config.results_path}/results.json", "w")` truncates the file
OpenFile ==
    /\ pc = "open"
    /\ file' = [state |-> "truncated", content |-> {}]
    /\ pc' = "dump"
    /\ UNCHANGED << config, layer_idx, probing_model, optimizer, trainVars,
                    results, persisted, ret >>
    /\ UNCHANGED << testVars, tokVars, readVars >>

\* `json.dump(results, f)` and the end of the with block
DumpFile ==
    /\ pc = "dump"
    /\ file' = [state |-> "written", content |-> JsonDump(results)]
    /\ persisted' = persisted \cup {JsonKey(k) : k \in Keys(results)}
    /\ pc' = "loop"
    /\ layer_idx' = layer_idx + 1
    /\ UNCHANGED << config, probing_model, optimizer, trainVars, results, ret >>
    /\ UNCHANGED << testVars, tokVars, readVars >>

\* `return results` after the last layer
Return ==
    /\ pc = "loop"
    /\ layer_idx > Len(config.num_layers)
    /\ pc' = "returned"
    /\ ret' = "results"
    /\ UNCHANGED << config, layer_idx, probing_model, optimizer, trainVars,
                    results, file, persisted >>
    /\ UNCHANGED << testVars, tokVars, readVars >>

SweepIdle ==
    /\ pc = "loop"
    /\ layer_idx = 1
    /\ probing_model = NoModel
    /\ optimizer = NoOptimizer
    /\ lr = << 0, 1 >>
    /\ eval = 0
    /\ counter = 0
    /\ min_loss = Unbound
    /\ start_index = 1
    /\ b = 0
    /\ since_eval = 0
    /\ gap = 0
    /\ epoch = 0
    /\ results = {}
    /\ file = [state |-> "absent", content |-> {}]
    /\ persisted = {}
    /\ ret = "running"

InitState ==
    /\ SweepIdle
    /\ TestIdle
    /\ TokIdle
    /\ ReadIdle

Init ==
    /\ config \in SweepConfig
    /\ InitState

TrainInit ==
    /\ config \in TrainRunConfig
    /\ InitState

Next ==
    \/ ProbeLayer
    \/ InvalidTask
    \/ TrainBatch
    \/ Test
    \/ OpenFile
    \/ DumpFile
    \/ Return

Spec == Init /\ [][Next]_vars

\* probing() with one layer and no results path: one call of train_*
TrainNext ==
    \/ ProbeLayer
    \/ TrainBatch
    \/ Test
    \/ Return

TrainSpec == TrainInit /\ [][TrainNext]_vars

\* test_* on every test set of up to MaxSamples samples over the ids
\* 0..n-1, n <= MaxIds, in batches of up to MaxBatchSize
TestInit ==
    /\ \E n \in 1..MaxIds :
          \E samples \in SeqsUpTo((0..(n - 1)) \X (0..(n - 1)), MaxSamples) :
             \E bs \in 1..MaxBatchSize :
                TestEntry(0..(n - 1), [samples |-> samples, batch_size |-> bs])
    /\ config = IdleConfig
    /\ SweepIdle
    /\ TokIdle
    /\ ReadIdle

TestNext ==
    \/ TestBatch
    \/ TestFinish

TestSpec == TestInit /\ [][TestNext]_vars

\* the texts of up to MaxWords words of up to MaxTokens tokens
Texts == {t \in SeqsUpTo(1..MaxTokens, MaxWords) : Len(t) > 0}

\* the spans [start_word, end_word) of the words of a text
SpansOf(text) == {sp \in (0..Len(text)) \X (0..Len(text)) : sp[1] < sp[2]}

\* tokenize_jiant_dataset on every single-span and two-span dataset of one or
\* two samples whose spans lie in their texts
TokInit ==
    /\ \E ts \in {t \in SeqsUpTo(Texts, 2) : Len(t) > 0} :
          \E s1 \in {sq \in [1..Len(ts) -> (0..MaxWords) \X (0..MaxWords)] :
                         \A k \in 1..Len(ts) : sq[k] \in SpansOf(ts[k])} :
             \E s2 \in {<< >>} \cup
                        {sq \in [1..Len(ts) -> (0..MaxWords) \X (0..MaxWords)] :
                            \A k \in 1..Len(ts) : sq[k] \in SpansOf(ts[k])} :
                \E n \in {MaxLength, MaxLength + 1} :
                   TokLocals(ts, s1, s2, n)
    /\ kpc = "loop"
    /\ config = IdleConfig
    /\ SweepIdle
    /\ TestIdle
    /\ ReadIdle

TokNext ==
    \/ TokenizeSample
    \/ TokenizeReturn

TokSpec == TokInit /\ [][TokNext]_vars

\* the texts of one-token words
JiantTexts == {t \in Texts : \A w \in 1..Len(t) : t[w] = 1}

JiantLabels == {"A", "B"}

\* the first and the last one-word span of the longest text
JiantSpans == {<< 0, 1 >>, << MaxWords - 1, MaxWords >>}

\* the targets of a single-span task and those of a two-span task
JiantTargets ==
    {[span1 |-> s1, label |-> l] : s1 \in JiantSpans, l \in JiantLabels}
    \cup {[span1 |-> s1, span2 |-> s2, label |-> l] :
             s1 \in JiantSpans, s2 \in JiantSpans, l \in JiantLabels}

JiantLines ==
    {[text |-> t, targets |-> ts] :
        t \in JiantTexts, ts \in SeqsUpTo(JiantTargets, MaxTargets)}

\* read_jiant_dataset on every file of up to MaxLines lines of up to
\* MaxTargets targets each
ReadInit ==
    /\ \E f \in SeqsUpTo(JiantLines, MaxLines) : ReadLocals(f)
    /\ rpc = "loop"
    /\ config = IdleConfig
    /\ SweepIdle
    /\ TestIdle
    /\ TokIdle

ReadNext ==
    \/ ReadTarget
    \/ ReadLine
    \/ ReadReturn

ReadSpec == ReadInit /\ [][ReadNext]_vars

\* a sequential program keeps running while it has a next statement
FairTrainSpec == TrainSpec /\ WF_vars(TrainNext)

(* ================================ claims =============================== *)
Range(seq) == {seq[k] : k \in 1..Len(seq)}

\* C1: every training run with at least one batch per epoch and
\* eval_interval >= 1 eventually returns (leaves the training loop).
C1_TrainingReturns == (pc = "train") ~> (pc = "test")

\* C2: the k-th evaluation happens after exactly k * eval_interval trained
\* batches: every evaluation comes exactly eval_interval batches after the
\* previous one (or after the start), also across epoch boundaries.
C2_EvalEveryInterval == (pc \in {"train", "test"} /\ eval > 0) => gap = config.eval_interval

\* C3: training goes on while neither stop condition holds and stops at the
\* first evaluation at which eval >= max_evals (if set) or counter >= patience;
\* no batch is trained after that evaluation; with max_evals = m < patience it
\* stops after exactly m evaluations.
C3_StopsAtFirstStopCondition ==
    /\ pc = "train" =>
          /\ config.max_evals = None \/ eval < config.max_evals
          /\ counter < config.patience
    /\ pc = "test" =>
          /\ \/ (config.max_evals # None /\ eval >= config.max_evals)
             \/ counter >= config.patience
          /\ since_eval = 0
          /\ (config.max_evals # None /\ config.patience > config.max_evals)
                => eval = config.max_evals

C3_Witness ==
    /\ pc = "test"
    /\ config.max_evals = 3
    /\ config.patience = 4
    /\ eval = 3
    /\ counter < 3

\* C4: during a training run the optimizer's learning rate never increases;
\* it changes only in a step that evaluates, only to exactly half its value,
\* and only when the counter after that evaluation is a positive multiple of
\* patience_lr and neither stop condition fires.
C4_LrOnlyHalvesAtEvaluation ==
    [][ pc = "train" =>
          /\ FracLeq(optimizer'.lr, optimizer.lr)
          /\ optimizer'.lr # optimizer.lr =>
                /\ eval' = eval + 1
                /\ optimizer'.lr[1] = optimizer.lr[1]
                /\ optimizer'.lr[2] = 2 * optimizer.lr[2]
                /\ counter' > 0
                /\ counter' % config.patience_lr = 0
                /\ config.max_evals = None \/ eval' < config.max_evals
                /\ counter' < config.patience
                /\ pc' = "train" ]_vars

C4_Witness ==
    /\ pc = "train"
    /\ optimizer.lr[1] = config.lr[1]
    /\ optimizer.lr[2] = 4 * config.lr[2]
    /\ counter > 0

\* C5 as claimed: for every list num_layers the table has one entry per
\* element of the list when probing returns, and no step overwrites or
\* removes an entry.
C5_AppendOnlyEveryList ==
    [][ /\ results \subseteq results'
        /\ (ValidTask(config.task_type) /\ pc' = "returned" /\ ret' = "results")
              => /\ Keys(results') = Range(config.num_layers)
                 /\ Cardinality(results') = Len(config.num_layers) ]_vars

\* C5 amended: when probing returns for a valid task type the table has
\* exactly one entry for each distinct element of num_layers, keyed by that
\* depth; no key is ever removed, and an entry is replaced only by a later
\* iteration that probes the same depth again, so for a list of distinct
\* depths the table is append-only and has one entry per element.
C5_OneEntryPerDistinctLayer ==
    [][ /\ Keys(results) \subseteq Keys(results')
        /\ \A p \in results :
              p \in results' \/ (pc = "test" /\ p[1] = config.num_layers[layer_idx])
        /\ Cardinality(Range(config.num_layers)) = Len(config.num_layers)
              => results \subseteq results'
        /\ (ValidTask(config.task_type) /\ pc' = "returned" /\ ret' = "results")
              => /\ Keys(results') = Range(config.num_layers)
                 /\ Cardinality(results') = Cardinality(Range(config.num_layers)) ]_vars

C5_Witness ==
    /\ pc = "returned"
    /\ ret = "results"
    /\ config.num_layers = << 1, 2, 3 >>
    /\ Keys(results) = {1, 2, 3}
    /\ Cardinality(results) = 3

\* C6: without a results path the file is never written; with one, every
\* layer a completed dump has written stays in results.json at every later
\* instant, also while the file is being rewritten.
C6_FileKeepsWrittenResults ==
    /\ config.results_path = "None" => file.state = "absent"
    /\ persisted \subseteq Keys(file.content)

\* C7 as claimed: for an invalid task type and every configuration probing
\* returns None, having trained no model and written no file.
C7_InvalidTaskReturnsNone ==
    ~(config.task_type \in {"single_span", "two_span"}) =>
        /\ pc \in {"loop", "returned"}
        /\ pc = "returned" => ret = "None"
        /\ probing_model = NoModel
        /\ optimizer = NoOptimizer
        /\ results = {}
        /\ file.state = "absent"

\* C7 amended: for an invalid task type probing raises nothing, trains and
\* tests no model and writes no file; it returns None when num_layers has
\* at least one element, and the empty table when num_layers is empty.
C7_InvalidTaskNoneUnlessNoLayers ==
    ~(config.task_type \in {"single_span", "two_span"}) =>
        /\ pc \in {"loop", "returned"}
        /\ pc = "returned" =>
              ret = (IF Len(config.num_layers) > 0 THEN "None" ELSE "results")
        /\ probing_model = NoModel
        /\ optimizer = NoOptimizer
        /\ results = {}
        /\ file.state = "absent"

C7_Witness ==
    /\ config.task_type = "pos_tagging"
    /\ Len(config.num_layers) > 0
    /\ config.results_path # "None"
    /\ pc = "returned"
    /\ ret = "None"

\* C8: every layer's training run starts with a new model that no optimizer
\* step has touched, a new optimizer over that model whose learning rate is
\* the configured lr, and eval = counter = 0.
C8_FreshTrainingState ==
    [][ (pc = "loop" /\ pc' = "train") =>
          /\ probing_model'.fresh
          /\ probing_model'.id # probing_model.id
          /\ optimizer'.id # optimizer.id
          /\ optimizer'.params = probing_model'.id
          /\ optimizer'.lr = config.lr
          /\ lr' = config.lr
          /\ eval' = 0
          /\ counter' = 0
          /\ start_index' = 1 ]_vars

\* the second iteration is about to start and the first one's optimizer has
\* a halved learning rate
C8_Witness ==
    /\ pc = "loop"
    /\ layer_idx > 1
    /\ layer_idx <= Len(config.num_layers)
    /\ ValidTask(config.task_type)
    /\ optimizer.id # 0
    /\ FracLess(optimizer.lr, config.lr)
    /\ ~probing_model.fresh

\* the counts of the whole test set, whatever its batches
NumPredicted(id) ==
    Cardinality({k \in 1..Len(test_data.samples) : test_data.samples[k][1] = id})
NumActual(id) ==
    Cardinality({k \in 1..Len(test_data.samples) : test_data.samples[k][2] = id})
NumCorrect(id) ==
    Cardinality({k \in 1..Len(test_data.samples) :
                    test_data.samples[k][1] = id /\ test_data.samples[k][2] = id})
ClassPrecision ==
    [id \in ids |-> IF NumPredicted(id) = 0 THEN << 0, 1 >>
                    ELSE << NumCorrect(id), NumPredicted(id) >>]
ClassRecall ==
    [id \in ids |-> IF NumActual(id) = 0 THEN << 0, 1 >>
                    ELSE << NumCorrect(id), NumActual(id) >>]

\* C9: when test_* is past its loop, n * macro-precision is the sum over all
\* n ids of correct/predicted (0 when predicted is 0), n * macro-recall the
\* sum of correct/actual (0 when actual is 0), for every split into batches;
\* the function returns exactly when P + R # 0, and then with
\* macro-F1 = 2PR/(P+R), i.e. F1 * (P + R) = 2 * P * R.
C9_MacroMetrics ==
    tpc \in {"returned", "raised"} =>
        LET n == Cardinality(ids)
            P == macro_precision
            R == macro_recall
        IN  /\ FracEq(FracMul(<< n, 1 >>, P), FracSum(ClassPrecision, ids))
            /\ FracEq(FracMul(<< n, 1 >>, R), FracSum(ClassRecall, ids))
            /\ tpc = "returned" <=> P[1] * R[2] + R[1] * P[2] # 0
            /\ tpc = "returned" =>
                  LET F == test_ret.f1_score
                  IN  F[1] * P[2] * R[2] * (P[1] * R[2] + R[1] * P[2])
                         = 2 * P[1] * R[1] * F[2] * P[2] * R[2]

\* predictions [0,0,1,1] with targets [0,1,1,1] in batches of 2
C9_Witness ==
    /\ tpc = "returned"
    /\ ids = {0, 1}
    /\ test_data.samples = << << 0, 0 >>, << 0, 1 >>, << 1, 1 >>, << 1, 1 >> >>
    /\ test_data.batch_size = 2
    /\ macro_precision = << 3, 4 >>
    /\ macro_recall = << 5, 6 >>
    /\ test_ret.f1_score = << 15, 19 >>

\* every word of the span [start_word, end_word) has a token in the
\* truncated window of the k-th sample's own text
SpanInWindow(k, span) ==
    \A w \in span[1]..(span[2] - 1) : WordToTokens(encodings, k - 1, w) # NoSpan

\* C10: a sample is excluded from the aligned dataset exactly when some word
\* of one of its spans has no token in the truncated window of its own text;
\* the aligned size is at most the input size, and one sample with
\* span1 = [0, 1] yields one aligned sample.
C10_DroppedIffSpanOutsideWindow ==
    kpc = "returned" =>
        /\ \A k \in 1..Len(texts) :
              k \in Range(kept) <=>
                 /\ SpanInWindow(k, span1s[k])
                 /\ span2s # << >> => SpanInWindow(k, span2s[k])
        /\ Len(kept) <= Len(texts)
        /\ (Len(texts) = 1 /\ span1s[1] = << 0, 1 >> /\ span2s = << >>) => Len(kept) = 1

\* the mask of length n that is true exactly at the tokens of the words of
\* the span [start_word, end_word) in the k-th sample's own text
SpanMask(k, span, n) ==
    [q \in 1..n |->
        /\ q <= Len(encodings[k].word_ids)
        /\ \E w \in span[1]..(span[2] - 1) : encodings[k].word_ids[q] = w]

\* C11: for every retained sample and each of its spans the mask has length
\* max_seq_length and is true exactly at the token positions that cover the
\* words start_word .. end_word-1 in the tokenization of that sample's text.
C11_MaskCoversSpanWords ==
    kpc = "returned" =>
        \A j \in 1..Len(kept) :
           /\ Len(span1_masks[j]) = max_seq_length
           /\ span1_masks[j] = SpanMask(kept[j], span1s[kept[j]], max_seq_length)
           /\ span2s # << >> =>
                 /\ Len(span2_masks[j]) = max_seq_length
                 /\ span2_masks[j] = SpanMask(kept[j], span2s[kept[j]], max_seq_length)

RECURSIVE Flatten(_)
\* the targets of the lines of a file in file order, each with its line's text
Flatten(f) ==
    IF f = << >> THEN << >>
    ELSE [k \in 1..Len(f[1].targets) |->
             [text |-> f[1].text, target |-> f[1].targets[k]]] \o Flatten(Tail(f))

\* C12: read_jiant_dataset returns texts, span1s and labels with one entry per
\* target in file order, the line's text repeated per target, and span2s
\* parallel to them: if span2s is non-empty, span2s[k] is the span2 of the
\* target that produced span1s[k] and labels[k].
C12_ParallelSequences ==
    rpc = "returned" =>
        LET flat == Flatten(lines)
        IN  /\ Len(texts) = Len(flat)
            /\ Len(span1s) = Len(flat)
            /\ Len(labels) = Len(flat)
            /\ \A k \in 1..Len(flat) :
                  /\ texts[k] = flat[k].text
                  /\ span1s[k] = flat[k].target.span1
                  /\ labels[k] = flat[k].target.label
            /\ span2s # << >> =>
                  /\ Len(span2s) = Len(flat)
                  /\ \A k \in 1..Len(flat) :
                        /\ HasSpan2(flat[k].target)
                        /\ span2s[k] = flat[k].target.span2

\* C13: every evaluation leaves the best-loss tracker at the minimum of the
\* validation losses seen so far (it never rises, and falls exactly when the new
\* loss is strictly lower) and the non-improvement counter at the number of
\* evaluations since the one that set the best loss: 0 after an evaluation whose
\* loss is strictly lower than all earlier ones, the first evaluation of a run
\* included, and one more than before otherwise.
C13_CounterCountsSinceBest ==
    [][eval' = eval + 1 =>
          LET lower == eval = 0 \/ min_loss' < min_loss
          IN  /\ eval > 0 => min_loss' <= min_loss
              /\ counter' = IF lower THEN 0 ELSE counter + 1]_vars

\* the test samples whose arg-max prediction equals the arg-max target
CorrectSamples ==
    {k \in 1..Len(test_data.samples) : test_data.samples[k][1] = test_data.samples[k][2]}

\* C14: when test_* is past its loop and no test sample was predicted
\* correctly, it has raised ZeroDivisionError instead of returning; when at
\* least one sample was predicted correctly it has returned, with a macro-F1
\* score in (0, 1].
C14_ZeroDivisionIffNoCorrect ==
    tpc \in {"returned", "raised"} =>
        IF CorrectSamples = {}
        THEN /\ tpc = "raised"
             /\ test_ret = "ZeroDivisionError"
             /\ FracEq(macro_precision, << 0, 1 >>)
             /\ FracEq(macro_recall, << 0, 1 >>)
        ELSE /\ tpc = "returned"
             /\ FracLess(<< 0, 1 >>, test_ret.f1_score)
             /\ FracLeq(test_ret.f1_score, << 1, 1 >>)

\* predictions [0,1,1] with targets [1,0,0] in batches of 2: nothing correct
C14_Witness ==
    /\ tpc = "raised"
    /\ ids = {0, 1}
    /\ test_data.samples = << << 0, 1 >>, << 1, 0 >>, << 1, 0 >> >>
    /\ test_data.batch_size = 2
    /\ test_ret = "ZeroDivisionError"

\* C15: the accuracy test_* returns is the number of test samples predicted
\* correctly divided by the number of test samples, for every split of the
\* test set into batches, a smaller last batch included.
C15_AccuracyOverSamples ==
    tpc = "returned" =>
        FracEq(test_ret.accuracy,
               << Cardinality(CorrectSamples), Len(test_data.samples) >>)
====
